---- MODULE Spec2Model ----
(***************************************************************************)
(* Intelligent Traffic Routing Advisor (src/main.py).                      *)
(*                                                                         *)
(* The advisor compares two routes A and B with a Mamdani fuzzy system     *)
(* built on scikit-fuzzy: four "delta" antecedents, one consequent         *)
(* delta_score, fifteen rules, centroid defuzzification, and a threshold   *)
(* on the crisp score.  One module-level ControlSystemSimulation object,   *)
(* `routing`, is shared by every call of advise().                         *)
(*                                                                         *)
(* Numbers.  Route measurements are integers.  A membership degree is an   *)
(* integer numerator over One (= 300, the least common multiple of the     *)
(* slopes' denominators of the antecedent sets), so every degree of an     *)
(* integral input is exact.  On the output universe abscissae are counted  *)
(* in 1/Sub (= 1/60) and degrees in 1/OutOne (= 1/3600): every point       *)
(* where a consequent set crosses a cut level, and every degree at such a  *)
(* point, is then an integer.  The crisp score is kept as an exact         *)
(* rational (floating-point rounding error is not modelled); the returned  *)
(* score, round(score, 2), is an integer count of hundredths.              *)
(***************************************************************************)
EXTENDS Integers, Sequences, FiniteSets, TLC

Max2(a, b) == IF a >= b THEN a ELSE b
Min2(a, b) == IF a <= b THEN a ELSE b

RECURSIVE SetMin(_)
SetMin(S) ==
    LET x == CHOOSE y \in S : TRUE
    IN  IF S = {x} THEN x ELSE Min2(x, SetMin(S \ {x}))

(* Degree 1 for the antecedents, and the output universe's two scales. *)
One == 3 * 100
Sub == 6 * 10
OutOne == Sub * Sub

---------------------------------------------------------------------------
(* skfuzzy's membership generators, as src/main.py calls them.  x and the  *)
(* abscissae a, b, c, d are in one common unit; `one` is the numerator     *)
(* that stands for degree 1.                                               *)

\* fuzz.trimf(universe, [a, b, c]): 1 at b, linear on (a, b) and (b, c), 0
\* elsewhere; a = b or b = c gives a vertical edge (a = b = c: a singleton).
trimf(x, a, b, c, one) ==
    IF x = b THEN one
    ELSE IF a # b /\ a < x /\ x < b THEN (one * (x - a)) \div (b - a)
    ELSE IF b # c /\ b < x /\ x < c THEN (one * (c - x)) \div (c - b)
    ELSE 0

\* fuzz.trapmf(universe, [a, b, c, d]): 1 on [b, c], ramps on [a, b] and
\* [c, d], 0 outside [a, d].
trapmf(x, a, b, c, d, one) ==
    IF x < a \/ x > d THEN 0
    ELSE IF x >= c THEN trimf(x, c, c, d, one)
    ELSE IF x <= b THEN trimf(x, a, b, b, one)
    ELSE one

---------------------------------------------------------------------------
(* The antecedents of the routing system and their fuzzy sets.  Each       *)
(* universe has step 1 and the crisp inputs are integers, so fuzzification *)
(* (interp_membership on the sampled set) returns the sample itself.       *)
(* delta_incident's peaks at 2.5 and -2.5 are written in half units.       *)

delta_density(label, x) ==
    CASE label = "A_much_better" -> trapmf(x, 50, 80, 200, 200, One)
      [] label = "A_better"      -> trimf(x, 20, 45, 70, One)
      [] label = "neutral"       -> trimf(x, -20, 0, 20, One)
      [] label = "B_better"      -> trimf(x, -70, -45, -20, One)
      [] label = "B_much_better" -> trapmf(x, -200, -200, -80, -50, One)

\* delta_speed with the foot of "A_better" at 0 instead of 8.
delta_speed_from_zero(label, x) ==
    CASE label = "A_much_better" -> trapmf(x, 20, 40, 120, 120, One)
      [] label = "A_better"      -> trimf(x, 0, 18, 30, One)
      [] label = "neutral"       -> trimf(x, -5, 0, 5, One)
      [] label = "B_better"      -> trimf(x, -30, -18, -8, One)
      [] label = "B_much_better" -> trapmf(x, -120, -120, -40, -20, One)

delta_speed(label, x) ==
    CASE label = "A_much_better" -> trapmf(x, 20, 40, 120, 120, One)
      [] label = "A_better"      -> trimf(x, 8, 18, 30, One)
      [] label = "neutral"       -> trimf(x, -5, 0, 5, One)
      [] label = "B_better"      -> trimf(x, -30, -18, -8, One)
      [] label = "B_much_better" -> trapmf(x, -120, -120, -40, -20, One)

delta_incident(label, x) ==
    CASE label = "A_much_better" -> trapmf(x, 3, 5, 10, 10, One)
      [] label = "A_better"      -> trimf(2 * x, 2, 5, 8, One)
      [] label = "neutral"       -> trimf(x, -1, 0, 1, One)
      [] label = "B_better"      -> trimf(2 * x, -8, -5, -2, One)
      [] label = "B_much_better" -> trapmf(x, -10, -10, -5, -3, One)

delta_time_peak(label, x) ==
    CASE label = "offpeak" -> trimf(x, 0, 0, 0, One)
      [] label = "peak"    -> trimf(x, 1, 1, 1, One)

Antecedents == {"delta_density", "delta_speed", "delta_incident", "delta_time_peak"}

\* The degree of input record `in` in set `label` of antecedent `var`.
Fuzzify(var, label, in) ==
    CASE var = "delta_density"   -> delta_density(label, in.delta_density)
      [] var = "delta_speed"     -> delta_speed(label, in.delta_speed)
      [] var = "delta_incident"  -> delta_incident(label, in.delta_incident)
      [] var = "delta_time_peak" -> delta_time_peak(label, in.delta_time_peak)

---------------------------------------------------------------------------
(* The consequent delta_score on the universe 0..100, abscissa X in 1/Sub. *)
(* All five sets have their corners on universe points, so the sampled     *)
(* set interpolated linearly is the set itself.                            *)

Terms == <<"strong_B", "weak_B", "neutral", "weak_A", "strong_A">>

delta_score(label, X) ==
    CASE label = "strong_B" -> trapmf(X, 0, 0, 10 * Sub, 30 * Sub, OutOne)
      [] label = "weak_B"   -> trimf(X, 20 * Sub, 35 * Sub, 50 * Sub, OutOne)
      [] label = "neutral"  -> trimf(X, 45 * Sub, 50 * Sub, 55 * Sub, OutOne)
      [] label = "weak_A"   -> trimf(X, 50 * Sub, 65 * Sub, 80 * Sub, OutOne)
      [] label = "strong_A" -> trapmf(X, 70 * Sub, 85 * Sub, 100 * Sub, 100 * Sub, OutOne)

\* The corners <<a, b, c, d>> of a consequent set, in universe units (a
\* triangle has b = c).
Corners(label) ==
    CASE label = "strong_B" -> <<0, 0, 10, 30>>
      [] label = "weak_B"   -> <<20, 35, 35, 50>>
      [] label = "neutral"  -> <<45, 50, 50, 55>>
      [] label = "weak_A"   -> <<50, 65, 65, 80>>
      [] label = "strong_A" -> <<70, 85, 100, 100>>

---------------------------------------------------------------------------
(* The rule base, in the order of rules.append.  `if` is a conjunction     *)
(* (skfuzzy's & is min) of <<antecedent, set>> atoms.                      *)

Rule(if, then) == [if |-> if, then |-> then]

rules == <<
    Rule(<< <<"delta_speed", "A_much_better">> >>, "strong_A"),
    Rule(<< <<"delta_speed", "B_much_better">> >>, "strong_B"),
    Rule(<< <<"delta_speed", "A_better">> >>, "weak_A"),
    Rule(<< <<"delta_speed", "B_better">> >>, "weak_B"),
    Rule(<< <<"delta_density", "A_much_better">> >>, "strong_A"),
    Rule(<< <<"delta_density", "B_much_better">> >>, "strong_B"),
    Rule(<< <<"delta_density", "A_better">> >>, "weak_A"),
    Rule(<< <<"delta_density", "B_better">> >>, "weak_B"),
    Rule(<< <<"delta_incident", "A_much_better">> >>, "strong_A"),
    Rule(<< <<"delta_incident", "B_much_better">> >>, "strong_B"),
    Rule(<< <<"delta_incident", "A_better">> >>, "weak_A"),
    Rule(<< <<"delta_incident", "B_better">> >>, "weak_B"),
    Rule(<< <<"delta_time_peak", "peak">>, <<"delta_density", "A_better">> >>, "strong_A"),
    Rule(<< <<"delta_time_peak", "peak">>, <<"delta_density", "B_better">> >>, "strong_B"),
    Rule(<< <<"delta_density", "neutral">>, <<"delta_speed", "neutral">>,
            <<"delta_incident", "neutral">> >>, "neutral") >>

\* The firing strength of a rule: the min of its atoms' degrees.
RECURSIVE AndDegree(_, _, _)
AndDegree(atoms, k, in) ==
    Min2(Fuzzify(atoms[k][1], atoms[k][2], in),
         IF k = Len(atoms) THEN One ELSE AndDegree(atoms, k + 1, in))

Firing(rule, in) == AndDegree(rule.if, 1, in)

\* The cut level of a consequent set after rules k.. have fired: the
\* accumulation (max) of the firing strengths of the rules that assert it.
RECURSIVE Accumulate(_, _, _)
Accumulate(label, k, in) ==
    IF k > Len(rules) THEN 0
    ELSE Max2(IF rules[k].then = label THEN Firing(rules[k], in) ELSE 0,
              Accumulate(label, k + 1, in))

Cuts(in) ==
    [strong_B |-> Accumulate("strong_B", 1, in),
     weak_B   |-> Accumulate("weak_B", 1, in),
     neutral  |-> Accumulate("neutral", 1, in),
     weak_A   |-> Accumulate("weak_A", 1, in),
     strong_A |-> Accumulate("strong_A", 1, in)]

---------------------------------------------------------------------------
(* Defuzzification, as routing.compute() does it for a consequent whose    *)
(* defuzzify_method is the default 'centroid'.                             *)

TermSet == {Terms[k] : k \in 1..Len(Terms)}

\* interp_universe: the abscissae where set `label` crosses cut level c, one
\* on the rising edge and one on the falling edge.
CrossPoints(label, c) ==
    LET q == Corners(label)
    IN  { Sub * q[1] + (Sub * (q[2] - q[1]) * c) \div One,
          Sub * q[4] - (Sub * (q[4] - q[3]) * c) \div One }

\* The universe is upsampled with the crossing points of every set.
Upsampled(cuts) == UNION {CrossPoints(label, cuts[label]) : label \in TermSet}

\* The aggregated output set at X: every set clipped at its cut level
\* (np.minimum), the clipped sets joined by np.maximum.
RECURSIVE Aggregated(_, _, _)
Aggregated(cuts, X, k) ==
    Max2(Min2((OutOne \div One) * cuts[Terms[k]], delta_score(Terms[k], X)),
         IF k = Len(Terms) THEN 0 ELSE Aggregated(cuts, X, k + 1))

\* centroid's trapezoid between neighbouring points X1 < X2 of the universe
\* step that starts at i: <<h*(y1+y2), h*((x1-i)*(2*y1+y2) + (x2-i)*(y1+2*y2))>>,
\* twice its area and six times its moment about i.
Trapezoid(i, X1, y1, X2, y2) ==
    << (X2 - X1) * (y1 + y2),
       (X2 - X1) * ((X1 - Sub * i) * (2 * y1 + y2) + (X2 - Sub * i) * (y1 + 2 * y2)) >>

AddPair(p, q) == <<p[1] + q[1], p[2] + q[2]>>

\* The next point after X1 in universe step i: an upsampled point inside
\* the step, or the step's right end.
NextPoint(i, X1, inner) ==
    SetMin({X \in inner : X > X1} \cup {Sub * (i + 1)})

\* The trapezoids of universe step [i, i+1] from X1 on, summed.
RECURSIVE StepSums(_, _, _, _, _)
StepFrom(cuts, i, X1, y1, X2, y2, inner) ==
    IF X2 = Sub * (i + 1) THEN Trapezoid(i, X1, y1, X2, y2)
    ELSE AddPair(Trapezoid(i, X1, y1, X2, y2), StepSums(cuts, i, X2, y2, inner))
StepTo(cuts, i, X1, y1, X2, inner) ==
    StepFrom(cuts, i, X1, y1, X2, Aggregated(cuts, X2, 1), inner)
StepSums(cuts, i, X1, y1, inner) ==
    StepTo(cuts, i, X1, y1, NextPoint(i, X1, inner), inner)

\* A step's sums: area (twice, a), moment of its left end (s = i*a), and its
\* own moment as a quotient and a remainder by 3*Sub, so that nothing
\* exceeds 32 bits.
StepRecord(i, st) ==
    [a |-> st[1], s |-> i * st[1], lq |-> st[2] \div (3 * Sub), lr |-> st[2] % (3 * Sub)]

AddSums(u, v) ==
    [a |-> u.a + v.a, s |-> u.s + v.s, lq |-> u.lq + v.lq, lr |-> u.lr + v.lr]

\* The sums over the universe steps lo..hi-1 (halved, to keep the recursion
\* shallow).
RECURSIVE UniverseSums(_, _, _, _)
UniverseSums(cuts, up, lo, hi) ==
    IF hi = lo + 1
    THEN StepRecord(lo, StepSums(cuts, lo, Sub * lo, Aggregated(cuts, Sub * lo, 1),
                                 {X \in up : X > Sub * lo /\ X < Sub * hi}))
    ELSE AddSums(UniverseSums(cuts, up, lo, (lo + hi) \div 2),
                 UniverseSums(cuts, up, (lo + hi) \div 2, hi))

\* sum(moment * area) / sum(area) as whole + (rem + frac/180) / den, or
\* "empty" when the area is zero.
Quotient(a, P, frac) ==
    IF a = 0 THEN [empty |-> TRUE, whole |-> 0, rem |-> 0, frac |-> 0, den |-> 1]
    ELSE [empty |-> FALSE, whole |-> P \div a, rem |-> P % a, frac |-> frac, den |-> a]

Centre(u) == Quotient(u.a, u.s + u.lq + (u.lr \div (3 * Sub)), u.lr % (3 * Sub))

\* fuzz.defuzz(universe, mf, 'centroid') on the upsampled universe: skfuzzy
\* raises when the aggregated set is zero everywhere ("empty").
centroid(cuts) == Centre(UniverseSums(cuts, Upsampled(cuts), 0, 100))

---------------------------------------------------------------------------
(* Routes and the calls the model makes.                                   *)

Route(d, s, i) == [density |-> d, speed |-> s, incident |-> i]

\* The routes of run_checks, routes near them, and one whose measurements
\* lie far outside the universes.
ValidRoutes ==
    { Route(20, 80, 0), Route(120, 30, 2),      \* run_checks: clear winner A
      Route(150, 25, 3), Route(40, 70, 0),      \* run_checks: clear winner B
      Route(80, 50, 1), Route(82, 48, 1),       \* run_checks: neutral case
      Route(95, 52, 1),                         \* near the neutral case
      Route(120, 80, 0), Route(100, 80, 0),     \* differ from the first in density only
      Route(110, 70, 3),
      Route(500, 300, 20) }

\* A record that lacks its "density" key.
BrokenRoute == [speed |-> 50, incident |-> 1]

\* <<routeA, routeB, peak_flag>>: every pair of valid routes under both peak
\* flags; a pair whose deltas (20, 6, 1) fall between the fuzzy sets; a flag
\* that is neither 0 nor 1; a call with the broken record.
Inputs ==
    (ValidRoutes \X ValidRoutes \X {0, 1})
    \cup { <<Route(100, 56, 0), Route(80, 50, 1), 0>>,
           <<Route(20, 80, 0), Route(120, 30, 2), 2>>,
           <<Route(82, 48, 1), Route(80, 50, 1), 2>>,
           <<BrokenRoute, Route(20, 80, 0), 0>> }

RouteKeys == {"density", "speed", "incident"}

---------------------------------------------------------------------------
(* compute_delta_inputs and the head of advise (lines 137-154).            *)

\* compute_delta_inputs with the incident difference taken as A - B.
compute_delta_inputs_swapped(A, B, peak_flag) ==
    IF ~(RouteKeys \subseteq DOMAIN A /\ RouteKeys \subseteq DOMAIN B)
    THEN [raised |-> TRUE, d_density |-> 0, d_speed |-> 0, d_inc |-> 0, peak |-> peak_flag]
    ELSE [raised |-> FALSE,
          d_density |-> A.density - B.density,
          d_speed |-> A.speed - B.speed,
          d_inc |-> A.incident - B.incident,
          peak |-> peak_flag]

\* A["density"] of a record without that key raises KeyError, which
\* advise does not catch: the call ends by raising.
compute_delta_inputs(A, B, peak_flag) ==
    IF ~(RouteKeys \subseteq DOMAIN A /\ RouteKeys \subseteq DOMAIN B)
    THEN [raised |-> TRUE, d_density |-> 0, d_speed |-> 0, d_inc |-> 0, peak |-> peak_flag]
    ELSE [raised |-> FALSE,
          d_density |-> A.density - B.density,
          d_speed |-> A.speed - B.speed,
          d_inc |-> B.incident - A.incident,
          peak |-> peak_flag]

\* np.clip(v, lo, hi)
clip(v, lo, hi) == IF v < lo THEN lo ELSE IF v > hi THEN hi ELSE v

\* int(1 if peak else 0)
peak_val(peak) == IF peak # 0 THEN 1 ELSE 0

NoResult == [kind |-> "none", score |-> 0, recommendation |-> "", raw |-> <<>>]
Raised   == [kind |-> "raised", score |-> 0, recommendation |-> "", raw |-> <<>>]
Returned(score, rec, raw) ==
    [kind |-> "returned", score |-> score, recommendation |-> rec, raw |-> raw]

IdleFrame == [pc |-> "idle", args |-> <<>>, raw |-> <<>>, result |-> NoResult]

\* A sentinel of -1.0 in place of 50.0.
NegativeSentinel == 0 - 100

\* The sentinel score 50.0, in hundredths.
Neutral == 50 * 100

\* score > 60 and score < 40 on the exact crisp score.
Above60(crisp) == crisp.whole > 60 \/ (crisp.whole = 60 /\ (crisp.rem > 0 \/ crisp.frac > 0))
Below40(crisp) == crisp.whole < 40

\* round(score, 2) in hundredths: two decimal digits by long division, then
\* round half to even on what is left.
round2(crisp) ==
    LET n1 == 10 * crisp.rem + ((10 * crisp.frac) \div (3 * Sub))
        f1 == (10 * crisp.frac) % (3 * Sub)
        d1 == n1 \div crisp.den
        r1 == n1 % crisp.den
        n2 == 10 * r1 + ((10 * f1) \div (3 * Sub))
        f2 == (10 * f1) % (3 * Sub)
        d2 == n2 \div crisp.den
        r2 == n2 % crisp.den
        m  == 2 * r2 + ((2 * f2) \div (3 * Sub))
        g  == (2 * f2) % (3 * Sub)
        down == 100 * crisp.whole + 10 * d1 + d2
        up == m > crisp.den \/ (m = crisp.den /\ (g > 0 \/ d2 % 2 = 1))
    IN  IF up THEN down + 1 ELSE down

\* Lines 148-154: the deltas and their clipping; a raise of
\* compute_delta_inputs ends the call.
Call(inp) ==
    LET d == compute_delta_inputs(inp[1], inp[2], inp[3])
    IN  IF d.raised
        THEN [pc |-> "done", args |-> inp, raw |-> <<>>, result |-> Raised]
        ELSE [pc |-> "in_density", args |-> inp,
              raw |-> << clip(d.d_density, -200, 200), clip(d.d_speed, -120, 120),
                         clip(d.d_inc, -10, 10), peak_val(d.peak) >>,
              result |-> NoResult]

---------------------------------------------------------------------------
(* The shared simulation object `routing` (line 130): its input buffer and *)
(* its output dictionary.  skfuzzy keeps both across compute() calls.      *)

FreshRouting == [input |-> <<>>, output |-> <<>>]

\* The universe bounds of an antecedent (np.arange at lines 51-54).
UniverseMin(var) ==
    CASE var = "delta_density" -> -200 [] var = "delta_speed" -> -120
      [] var = "delta_incident" -> -10 [] var = "delta_time_peak" -> 0
UniverseMax(var) ==
    CASE var = "delta_density" -> 200 [] var = "delta_speed" -> 120
      [] var = "delta_incident" -> 10 [] var = "delta_time_peak" -> 1

\* routing.input[var] = value; the simulation clips a value to the universe
\* (clip_to_bounds is on by default).
SetInput(sim, var, value) ==
    [sim EXCEPT !.input = (var :> clip(value, UniverseMin(var), UniverseMax(var))) @@ sim.input]

\* The engine on one input record: fuzzification, the rules, aggregation
\* and the centroid.
Infer(in) == centroid(Cuts(in))

\* The engine's input records that the calls of Inputs produce, and the
\* engine's answer for each, tabulated once; any other record is inferred
\* when it comes up.
EngineInput(raw) ==
    [delta_density |-> raw[1], delta_speed |-> raw[2],
     delta_incident |-> raw[3], delta_time_peak |-> raw[4]]

InputSpace == {EngineInput(Call(inp).raw) : inp \in {i \in Inputs : Call(i).pc # "done"}}

InferTable == [in \in InputSpace |-> Infer(in)] @@ <<>>

Engine(in) == IF in \in DOMAIN InferTable THEN InferTable[in] ELSE Infer(in)

\* routing.compute(): raises when an antecedent has no input or when no
\* rule fires (the aggregated set is empty); otherwise stores the crisp
\* score in routing.output["delta_score"].  A raise leaves output as it was.
Computed(sim, crisp) ==
    IF crisp.empty THEN [raised |-> TRUE, sim |-> sim]
    ELSE [raised |-> FALSE,
          sim |-> [sim EXCEPT !.output = ("delta_score" :> crisp) @@ sim.output]]

compute(sim) ==
    IF DOMAIN sim.input # Antecedents THEN [raised |-> TRUE, sim |-> sim]
    ELSE Computed(sim, Engine(sim.input))

---------------------------------------------------------------------------
(* advise (lines 146-202), statement by statement.  A frame is one call's  *)
(* locals: its arguments, the clipped deltas (d_density, d_speed, d_inc,   *)
(* peak_val), where it stands, and what it returned.                       *)

\* Lines 185-190.
recommend(crisp) ==
    IF Above60(crisp) THEN "Take Route A"
    ELSE IF Below40(crisp) THEN "Take Route B"
    ELSE "Both routes comparable"

\* Lines 161-171: the try around routing.compute().
AfterCompute(f, c) ==
    [sim |-> c.sim,
     frame |-> IF c.raised
               THEN [f EXCEPT !.pc = "done",
                              !.result = Returned(Neutral, "Error/Neutral", f.raw)]
               ELSE [f EXCEPT !.pc = "check"]]

\* One statement of advise after line 154, on simulation `sim` for the call
\* with frame f: the simulation and the frame after it.
Step(sim, f) ==
    CASE f.pc = "in_density" ->
            [sim |-> SetInput(sim, "delta_density", f.raw[1]),
             frame |-> [f EXCEPT !.pc = "in_speed"]]
      [] f.pc = "in_speed" ->
            [sim |-> SetInput(sim, "delta_speed", f.raw[2]),
             frame |-> [f EXCEPT !.pc = "in_incident"]]
      [] f.pc = "in_incident" ->
            [sim |-> SetInput(sim, "delta_incident", f.raw[3]),
             frame |-> [f EXCEPT !.pc = "in_peak"]]
      [] f.pc = "in_peak" ->
            [sim |-> SetInput(sim, "delta_time_peak", f.raw[4]),
             frame |-> [f EXCEPT !.pc = "compute"]]
      [] f.pc = "compute" -> AfterCompute(f, compute(sim))
      [] f.pc = "check" ->
            [sim |-> sim,
             frame |-> IF "delta_score" \notin DOMAIN sim.output
                       THEN [f EXCEPT !.pc = "done",
                                      !.result = Returned(Neutral, "Ambiguous (No matching rules)", f.raw)]
                       ELSE [f EXCEPT !.pc = "read"]]
      [] f.pc = "read" ->
            [sim |-> sim,
             frame |-> [f EXCEPT !.pc = "done",
                                 !.result = Returned(round2(sim.output["delta_score"]),
                                                     recommend(sim.output["delta_score"]),
                                                     f.raw)]]

\* A call run to its end without interruption.
RECURSIVE Run(_, _)
Resume(st) == Run(st.sim, st.frame)
Run(sim, f) ==
    IF f.pc = "done" THEN [sim |-> sim, frame |-> f] ELSE Resume(Step(sim, f))

---------------------------------------------------------------------------
(* The state: the shared simulation and the frames of two callers.         *)

VARIABLES routing, frames

vars == <<routing, frames>>

Callers == {1, 2}

Init ==
    /\ routing = FreshRouting
    /\ frames = [p \in Callers |-> IdleFrame]

\* The program as written: one caller, one call of advise after another.
Becomes(p, st) ==
    /\ routing' = st.sim
    /\ frames' = [frames EXCEPT ![p] = st.frame]

advise(inp) ==
    /\ frames[1].pc \in {"idle", "done"}
    /\ Becomes(1, Run(routing, Call(inp)))

Next == \E inp \in Inputs : advise(inp)

Spec == Init /\ [][Next]_vars

\* Two callers in threads, each making one call; a statement is a step.
ConcInputs ==
    { <<Route(20, 80, 0), Route(120, 80, 0), 0>>,
      <<Route(150, 25, 3), Route(40, 70, 0), 1>>,
      <<Route(80, 50, 1), Route(82, 48, 1), 0>>,
      <<Route(100, 56, 0), Route(80, 50, 1), 0>> }

Begin(p) ==
    /\ frames[p].pc = "idle"
    /\ \E inp \in ConcInputs : frames' = [frames EXCEPT ![p] = Call(inp)]
    /\ UNCHANGED routing

Statement(p, pcs) ==
    /\ frames[p].pc \in pcs
    /\ Becomes(p, Step(routing, frames[p]))

SetInputs(p) == Statement(p, {"in_density", "in_speed", "in_incident", "in_peak"})
Compute(p) == Statement(p, {"compute"})
CheckOutput(p) == Statement(p, {"check"})
ReadScore(p) == Statement(p, {"read"})

NextConc ==
    \E p \in Callers :
        Begin(p) \/ SetInputs(p) \/ Compute(p) \/ CheckOutput(p) \/ ReadScore(p)

SpecConc == Init /\ [][NextConc]_vars

\* One call on the fresh simulation, for every pair of routes whose density
\* and speed differ by at most NearDensity and NearSpeed (incident equal),
\* under both peak flags.
NearDensity == 20
NearSpeed == 5

NearInputs ==
    { <<Route(80, 50, 1), Route(80 - dd, 50 - ds, 1), peak>> :
        dd \in (0 - NearDensity)..NearDensity,
        ds \in (0 - NearSpeed)..NearSpeed,
        peak \in {0, 1} }

FirstCall ==
    /\ frames[1].pc = "idle"
    /\ \E inp \in NearInputs : Becomes(1, Run(routing, Call(inp)))

SpecNear == Init /\ [][FirstCall]_vars

---------------------------------------------------------------------------
(* The properties.  Scores are in hundredths, so 40.0 is 4000 and 60.0 is  *)
(* 6000.  `TheCall` is the sequential caller's frame.                      *)

TheCall == frames[1]

HasReturned(f) == f.pc = "done" /\ f.result.kind = "returned"

\* A call whose two arguments are complete route records.
WellFormed(f) ==
    /\ f.pc # "idle"
    /\ RouteKeys \subseteq DOMAIN f.args[1]
    /\ RouteKeys \subseteq DOMAIN f.args[2]

Abs(n) == IF n < 0 THEN 0 - n ELSE n

Clamp(v, lo, hi) == Max2(lo, Min2(hi, v))

Recommendations ==
    {"Take Route A", "Take Route B", "Both routes comparable",
     "Ambiguous (No matching rules)", "Error/Neutral"}

\* C8: every returned result, on the normal path and on the sentinel paths,
\* for measurements inside or far outside the universes, has a score in
\* [0, 100] and one of the five recommendations.
C8_ScoreAndRecommendationInRange ==
    HasReturned(TheCall) =>
        /\ TheCall.result.score \in 0..(100 * 100)
        /\ TheCall.result.recommendation \in Recommendations

\* A result returned for route A's measurements far outside the universes,
\* the engine having been fed the clamped density delta.
C8_OutOfRangeReturned ==
    /\ HasReturned(TheCall)
    /\ TheCall.args[1] = Route(500, 300, 20)
    /\ TheCall.result.recommendation = "Both routes comparable"
    /\ TheCall.result.score # Neutral
    /\ routing.input.delta_density = 200

\* The deltas of a call, as the claims state them.
DensityDelta(f) == f.args[1].density - f.args[2].density
SpeedDelta(f) == f.args[1].speed - f.args[2].speed
IncidentDelta(f) == f.args[2].incident - f.args[1].incident

NearIdentical(f) ==
    /\ WellFormed(f)
    /\ Abs(DensityDelta(f)) < 20
    /\ Abs(SpeedDelta(f)) < 5
    /\ Abs(IncidentDelta(f)) < 1

\* The rules that fire on the engine input of a returned call.
FiredRules(f) ==
    {k \in 1..Len(rules) : Firing(rules[k], EngineInput(f.result.raw)) > 0}

\* C10: for near-identical routes (|density delta| < 20, |speed delta| < 5,
\* |incident delta| < 1, either peak flag) only the neutral baseline rule,
\* the last of the 15, fires, the score is within [40, 60] and the
\* recommendation is 'Both routes comparable'.
C10_NearIdenticalComparable ==
    (TheCall.pc = "done" /\ NearIdentical(TheCall)) =>
        /\ TheCall.result.kind = "returned"
        /\ FiredRules(TheCall) = {Len(rules)}
        /\ TheCall.result.score \in (40 * 100)..(60 * 100)
        /\ TheCall.result.recommendation = "Both routes comparable"

\* The near-identical pair of run_checks has been advised on.
C10_NearIdenticalAdvised ==
    /\ HasReturned(TheCall)
    /\ TheCall.args = <<Route(80, 50, 1), Route(82, 48, 1), 0>>
    /\ NearIdentical(TheCall)
    /\ TheCall.result.recommendation = "Both routes comparable"

\* C7: in a returned result with one of the three normal recommendations,
\* the recommendation is the one the returned score determines: 'Take Route
\* A' exactly when score > 60, 'Take Route B' exactly when score < 40,
\* 'Both routes comparable' exactly when 40 <= score <= 60.
NormalRecommendations == {"Take Route A", "Take Route B", "Both routes comparable"}

C7_RecommendationFromReturnedScore ==
    (HasReturned(TheCall) /\ TheCall.result.recommendation \in NormalRecommendations) =>
        LET score == TheCall.result.score
            rec == TheCall.result.recommendation
        IN  /\ (rec = "Take Route A") <=> (score > 60 * 100)
            /\ (rec = "Take Route B") <=> (score < 40 * 100)
            /\ (rec = "Both routes comparable") <=> (40 * 100 <= score /\ score <= 60 * 100)

\* C3: when the clamped inputs give every rule a firing strength of zero,
\* the call returns 50.0 with 'Ambiguous (No matching rules)'.
C3_NoRuleMatchIsAmbiguous ==
    (HasReturned(TheCall) /\ FiredRules(TheCall) = {}) =>
        /\ TheCall.result.score = Neutral
        /\ TheCall.result.recommendation = "Ambiguous (No matching rules)"

\* C4: the clear cases of run_checks: A = (20, 80, 0) against B = (120, 30, 2)
\* at peak gives 'Take Route A', the two swapped give 'Take Route B', and
\* A = (150, 25, 3) against B = (40, 70, 0) at peak gives 'Take Route B'.
C4_ClearWinnerRecommended ==
    HasReturned(TheCall) =>
        /\ TheCall.args = <<Route(20, 80, 0), Route(120, 30, 2), 1>>
              => TheCall.result.recommendation = "Take Route A"
        /\ TheCall.args = <<Route(120, 30, 2), Route(20, 80, 0), 1>>
              => TheCall.result.recommendation = "Take Route B"
        /\ TheCall.args = <<Route(150, 25, 3), Route(40, 70, 0), 1>>
              => TheCall.result.recommendation = "Take Route B"

\* C5: with equal speed and equal incident severity and a peak flag of 0 or
\* 1, route A's density lower by 80 or more gives 'Take Route A' and higher
\* by 80 or more gives 'Take Route B'.
C5_LowerDensityFavorsA ==
    (/\ HasReturned(TheCall) /\ WellFormed(TheCall)
     /\ SpeedDelta(TheCall) = 0 /\ IncidentDelta(TheCall) = 0
     /\ TheCall.args[3] \in {0, 1}) =>
        /\ DensityDelta(TheCall) <= -80 => TheCall.result.recommendation = "Take Route A"
        /\ DensityDelta(TheCall) >= 80 => TheCall.result.recommendation = "Take Route B"

\* C6: a call of advise always ends by returning a result record, never by
\* raising, whatever the route records.
C6_NeverRaises ==
    TheCall.pc = "done" => TheCall.result.kind = "returned"

\* What a call with arguments inp returns when it is the only call ever
\* made on the simulation.
Alone(inp) == Run(FreshRouting, Call(inp)).frame.result

\* C2: a call returns what the first call with its arguments returned, and
\* calls leave the state that later calls read, the shared simulation
\* included, as it was.
C2_PureAndLeavesStateAlone ==
    TheCall.pc = "done" =>
        /\ TheCall.result = Alone(TheCall.args)
        /\ routing = FreshRouting

\* C1: with two calls running at the same time, each call that has ended
\* returned what it returns when run alone.
C1_ConcurrentCallsIsolated ==
    \A p \in Callers :
        frames[p].pc = "done" => frames[p].result = Alone(frames[p].args)

====
